---- MODULE Spec2Model ----
(***************************************************************************)
(* The marketplace backend of src/backend/app.js: the Express handlers     *)
(* POST /user, POST /purchase, GET /vehicle/:vehicleId and POST /feedback  *)
(* over the four relations users, vehicles, transactions and review.       *)
(*                                                                         *)
(* Every handler is an async function: it runs atomically between two      *)
(* awaits and may be interleaved with any other request at each await.     *)
(* One action below is one such atomic segment (the continuation of one    *)
(* await), so the program counter of a request names the await it is       *)
(* suspended on.  Every sqlite.open / db.get / db.all / db.run may reject   *)
(* (a store fault); the handlers' try/catch turns the rejection into a     *)
(* 500.  db.close is taken to resolve.                                     *)
(***************************************************************************)
EXTENDS Integers, Sequences, FiniteSets, TLC

\* ---------------------------------------------------------------- bounds
NumProcs == 2       \* requests in flight
MaxAvail == 1       \* largest initial availability of a vehicle
MaxFaults == 1      \* store statements that may reject in one behaviour
MaxRows == 2        \* rows of transactions left by earlier purchases
MaxReviews == 1     \* rows of review left by earlier submissions

Procs == 1..NumProcs

\* ------------------------------------------------------- the stored data
\* users: no handler writes it (registration is not part of app.js).
users ==
  { [user_id |-> 1, username |-> "ann", password |-> "pw1"],
    [user_id |-> 2, username |-> "bob", password |-> "pw2"] }

VehicleIds == {1, 2}

\* The text columns of vehicles, which no handler writes.  A text is the
\* sequence of its characters.
model_name == [v \in VehicleIds |-> IF v = 1 THEN <<"T", "3">> ELSE <<"L", "f">>]
description == [v \in VehicleIds |-> IF v = 1 THEN <<"e", "v">> ELSE <<"h", "b">>]
tags == [v \in VehicleIds |-> IF v = 1 THEN <<"s", ",", "e">> ELSE <<"h", ",", "e">>]

\* Ids a request body or URL can carry: 0 stands for every falsy value
\* (undefined, "", 0), 9 names no row of users or vehicles.
BodyIds == {0, 1, 2, 9}

\* genRanHex(): 8 random hex digits; two codes stand for the 2^32.
Codes == {"c1", "c2"}

\* LIMIT 5 of the recommendation query.
RecLimit == 5

VARIABLES
  vehicles,      \* vehicle_id -> [availability]          (relation vehicles)
  transactions,  \* sequence of rows, transaction_id = index (AUTOINCREMENT)
  review,        \* sequence of rows, review_id = index
  conns,         \* number of open sqlite connections
  faults,        \* store statements that have rejected so far
  initial,       \* vehicle_id -> availability at start (history)
  pc,            \* request -> the await it is suspended on
  req,           \* request -> its inputs
  loc,           \* request -> its local variables
  resp,          \* request -> the response sent (status 0: none yet)
  accessed,      \* request -> it has issued a store call (history)
  seen           \* request -> requests answered 200 before it arrived (history)

vars == <<vehicles, transactions, review, conns, faults, initial,
          pc, req, loc, resp, accessed, seen>>

store == <<vehicles, transactions, review>>

\* ------------------------------------------------------------- requests
NoRating == [isNum |-> TRUE, tenths |-> 0]

NoReq ==
  [kind |-> "none", userId |-> 0, vehicleId |-> 0, rating |-> NoRating,
   reviewText |-> "", username |-> "", password |-> "",
   qry |-> <<>>, filters |-> <<>>]

NoRow == [found |-> FALSE, availability |-> 0]

NoLoc ==
  [count |-> NoRow, confirmation |-> "", txid |-> 0, authId |-> 0,
   transactions |-> <<>>, recommendations |-> {},
   vehicleInfo |-> NoRow, averageRating |-> 0, reviews |-> <<>>,
   query |-> <<>>, results |-> {}]

NoResp == [status |-> 0, body |-> ""]

\* !x of JavaScript for an id field.
Falsy(x) == x = 0

\* !s of JavaScript for a string field.
FalsyStr(s) == s = ""

\* Purchases that have returned their confirmation code.
Confirmed ==
  {q \in Procs : pc[q] = "done" /\ req[q].kind = "purchase" /\ resp[q].status = 200}

Quiescent == \A p \in Procs : pc[p] \in {"idle", "done"}

\* Requests that have been answered 200.
Answered == {q \in Procs : pc[q] = "done" /\ resp[q].status = 200}

\* Requests are numbered in their order of arrival.
Arrives(p) ==
  /\ pc[p] = "idle"
  /\ \A q \in Procs : q < p => pc[q] # "idle"
  /\ seen' = [seen EXCEPT ![p] = Answered]

Goto(p, label) == pc' = [pc EXCEPT ![p] = label]

\* res.status(s).send(b); return
Respond(p, s, b) ==
  /\ resp' = [resp EXCEPT ![p] = [status |-> s, body |-> b]]
  /\ pc' = [pc EXCEPT ![p] = "done"]

\* The catch that sends the message of the error it caught.
CatchSendsError(p) == Respond(p, 500, "SQLITE_ERROR: no such table")

\* catch (err) { res.status(500).type('text').send("Internal Server Error") }
Catch(p) == Respond(p, 500, "Internal Server Error")

\* A store statement rejects.
Rejects == faults < MaxFaults /\ faults' = faults + 1

\* getDBConnection(): sqlite.open resolves with a connection, or rejects; no
\* call of it is inside a try of its own, so the rejection reaches the
\* handler's catch.
Open(p, from, to) ==
  /\ pc[p] = from
  /\ accessed' = [accessed EXCEPT ![p] = TRUE]
  /\ \/ /\ conns' = conns + 1
        /\ Goto(p, to)
        /\ UNCHANGED <<faults, resp>>
     \/ /\ Rejects
        /\ Catch(p)
        /\ UNCHANGED conns
  /\ UNCHANGED <<store, initial, req, loc, seen>>

\* The statement the request waits on at `from` rejects; the enclosing
\* function has no finally, so its connection stays open.
Throws(p, from) ==
  /\ pc[p] = from
  /\ Rejects
  /\ Catch(p)
  /\ UNCHANGED <<store, conns, initial, req, loc, accessed, seen>>

\* --------------------------------------------------------- POST /purchase
\* if (!userId || !vehicleId)
PurchaseBodyMissing(u, v) == Falsy(u) \/ Falsy(v)

purchaseRequest(p) ==
  /\ Arrives(p)
  /\ \E u \in BodyIds, v \in BodyIds :
       /\ req' = [req EXCEPT ![p] = [NoReq EXCEPT !.kind = "purchase",
                                                 !.userId = u, !.vehicleId = v]]
       /\ IF PurchaseBodyMissing(u, v)
            THEN Respond(p, 400, "Missing user ID or product ID")
            ELSE Goto(p, "cv_open") /\ UNCHANGED resp
  /\ UNCHANGED <<store, conns, faults, initial, loc, accessed>>

\* SELECT availability FROM vehicles WHERE vehicle_id = ?
SelectAvailability(vs, v) ==
  IF v \in DOMAIN vs
    THEN [found |-> TRUE, availability |-> vs[v].availability]
    ELSE NoRow

checkVehicle_get(p) ==
  /\ pc[p] = "cv_get"
  /\ loc' = [loc EXCEPT ![p].count = SelectAvailability(vehicles, req[p].vehicleId)]
  /\ Goto(p, "cv_close")
  /\ UNCHANGED <<store, conns, faults, initial, req, resp, accessed, seen>>

\* return (count.availability > 0): a TypeError when db.get found no row
checkVehicleReturn(count) ==
  IF ~count.found THEN "TypeError"
  ELSE IF count.availability > 0 THEN "true" ELSE "false"

\* db.close() of checkVehicle resolves, then lines 82-88 up to the first
\* await of makePurchase (genRanHex, getDBConnection).
checkVehicle_close(p) ==
  /\ pc[p] = "cv_close"
  /\ conns' = conns - 1
  /\ LET r == checkVehicleReturn(loc[p].count) IN
       \/ r = "TypeError" /\ Catch(p) /\ loc' = [loc EXCEPT ![p] = NoLoc]
       \/ /\ r = "false"
          /\ Respond(p, 400, "Vehicle not available")
          /\ loc' = [loc EXCEPT ![p] = NoLoc]
       \/ /\ r = "true"
          /\ \E c \in Codes : loc' = [loc EXCEPT ![p] = [NoLoc EXCEPT !.confirmation = c]]
          /\ Goto(p, "mp_open")
          /\ UNCHANGED resp
  /\ UNCHANGED <<store, faults, initial, req, accessed, seen>>

\* The INSERT with its first two parameters in the wrong order.
InsertTransactionSwapped(ts, u, v, c) ==
  Append(ts, [user_id |-> v, vehicle_id |-> u, confirmation_number |-> c])

\* INSERT INTO transactions (user_id, vehicle_id, confirmation_number, date)
InsertTransaction(ts, u, v, c) ==
  Append(ts, [user_id |-> u, vehicle_id |-> v, confirmation_number |-> c])

makePurchase_insert(p) ==
  /\ pc[p] = "mp_insert"
  /\ transactions' = InsertTransaction(transactions, req[p].userId,
                                       req[p].vehicleId, loc[p].confirmation)
  /\ loc' = [loc EXCEPT ![p].txid = Len(transactions')]
  /\ Goto(p, "mp_update")
  /\ UNCHANGED <<vehicles, review, conns, faults, initial, req, resp, accessed, seen>>

\* The UPDATE that takes two units.
DecrementTwice(vs, v) ==
  [x \in DOMAIN vs |->
     IF x = v THEN [vs[x] EXCEPT !.availability = @ - 2] ELSE vs[x]]

\* The UPDATE without its WHERE clause.
DecrementEveryVehicle(vs, v) ==
  [x \in DOMAIN vs |-> [vs[x] EXCEPT !.availability = @ - 1]]

\* UPDATE vehicles SET availability = availability - 1 WHERE vehicle_id = ?
DecrementAvailability(vs, v) ==
  [x \in DOMAIN vs |->
     IF x = v THEN [vs[x] EXCEPT !.availability = @ - 1] ELSE vs[x]]

makePurchase_update(p) ==
  /\ pc[p] = "mp_update"
  /\ vehicles' = DecrementAvailability(vehicles, req[p].vehicleId)
  /\ Goto(p, "mp_close")
  /\ UNCHANGED <<transactions, review, conns, faults, initial, req, loc, resp,
                 accessed, seen>>

\* db.close() of makePurchase resolves; res.type('text').send(confirmation)
makePurchase_close(p) ==
  /\ pc[p] = "mp_close"
  /\ conns' = conns - 1
  /\ Respond(p, 200, loc[p].confirmation)
  /\ UNCHANGED <<store, faults, initial, req, loc, accessed, seen>>

purchase(p) ==
  \/ purchaseRequest(p)
  \/ Open(p, "cv_open", "cv_get")
  \/ checkVehicle_get(p)
  \/ Throws(p, "cv_get")
  \/ checkVehicle_close(p)
  \/ Open(p, "mp_open", "mp_insert")
  \/ makePurchase_insert(p)
  \/ Throws(p, "mp_insert")
  \/ makePurchase_update(p)
  \/ Throws(p, "mp_update")
  \/ makePurchase_close(p)

\* ------------------------------------------------------------- POST /user
Names == {"", "ann", "bob"}
Passwords == {"", "pw1", "pw2"}

\* if (!username || !password)
UserBodyMissing(n, w) == FalsyStr(n) \/ FalsyStr(w)

userRequest(p) ==
  /\ Arrives(p)
  /\ \E n \in Names, w \in Passwords :
       /\ req' = [req EXCEPT ![p] = [NoReq EXCEPT !.kind = "user",
                                                 !.username = n, !.password = w]]
       /\ IF UserBodyMissing(n, w)
            THEN Respond(p, 400, "Missing username and/or password")
            ELSE Goto(p, "au_open") /\ UNCHANGED resp
  /\ UNCHANGED <<store, conns, faults, initial, loc, accessed>>

\* SELECT * FROM users WHERE username = ? AND password = ?, then
\* user && user.user_id ? user.user_id : null   (0 stands for null)
SelectUserId(n, w) ==
  LET rows == {r \in users : r.username = n /\ r.password = w} IN
    IF rows = {} THEN 0 ELSE (CHOOSE r \in rows : TRUE).user_id

authenticateUser_get(p) ==
  /\ pc[p] = "au_get"
  /\ loc' = [loc EXCEPT ![p].authId = SelectUserId(req[p].username, req[p].password)]
  /\ Goto(p, "au_close")
  /\ UNCHANGED <<store, conns, faults, initial, req, resp, accessed, seen>>

\* db.close() of authenticateUser resolves, then lines 41-47 up to the first
\* await of getUserData.
authenticateUser_close(p) ==
  /\ pc[p] = "au_close"
  /\ conns' = conns - 1
  /\ IF Falsy(loc[p].authId)
       THEN Respond(p, 401, "Incorrect username and/or password")
       ELSE Goto(p, "ud_open") /\ UNCHANGED resp
  /\ UNCHANGED <<store, faults, initial, req, loc, accessed, seen>>

RECURSIVE Descending(_)
Descending(S) ==
  IF S = {} THEN <<>>
  ELSE LET m == CHOOSE x \in S : \A y \in S : y <= x
       IN <<m>> \o Descending(S \ {m})

\* SELECT transactions.*, vehicles.model_name AS vehicle_name FROM transactions
\* JOIN vehicles ... WHERE transactions.user_id = ? ORDER BY transaction_id DESC
SelectUserTransactions(ts, vs, u) ==
  LET ids == Descending({i \in 1..Len(ts) :
                           ts[i].user_id = u /\ ts[i].vehicle_id \in DOMAIN vs})
  IN [k \in 1..Len(ids) |->
        [transaction_id |-> ids[k],
         user_id |-> ts[ids[k]].user_id,
         vehicle_id |-> ts[ids[k]].vehicle_id,
         confirmation_number |-> ts[ids[k]].confirmation_number,
         vehicle_name |-> model_name[ts[ids[k]].vehicle_id]]]

\* db.all resolves to an array, so the !transactions branch (lines 283-286)
\* is never taken.
getUserData_all(p) ==
  /\ pc[p] = "ud_all"
  /\ loc' = [loc EXCEPT ![p].transactions =
                SelectUserTransactions(transactions, vehicles, loc[p].authId)]
  /\ Goto(p, "ud_recs")
  /\ UNCHANGED <<store, conns, faults, initial, req, resp, accessed, seen>>

\* The recommendation query without its NOT IN clause.
RecommendationRowsOfOthers(ts, vs, u) ==
  { [from |-> i,
     vehicle_id |-> ts[i].vehicle_id,
     availability |-> vs[ts[i].vehicle_id].availability] :
    i \in {j \in 1..Len(ts) :
             /\ ts[j].vehicle_id \in DOMAIN vs
             /\ ts[j].user_id # u
             /\ vs[ts[j].vehicle_id].availability > 0} }

\* The rows of the recommendation query before ORDER BY RANDOM() LIMIT 5: one
\* per transaction row of another user whose vehicle is in stock and was not
\* bought by this user.  from names the transaction row the joined row is of.
RecommendationRows(ts, vs, u) ==
  LET mine == {ts[i].vehicle_id : i \in {j \in 1..Len(ts) : ts[j].user_id = u}} IN
    { [from |-> i,
       vehicle_id |-> ts[i].vehicle_id,
       availability |-> vs[ts[i].vehicle_id].availability] :
      i \in {j \in 1..Len(ts) :
               /\ ts[j].vehicle_id \in DOMAIN vs
               /\ ts[j].user_id # u
               /\ vs[ts[j].vehicle_id].availability > 0
               /\ ts[j].vehicle_id \notin mine} }

\* ORDER BY RANDOM() LIMIT 5: any RecLimit of the rows, or all of them.
RandomLimit(rows) ==
  IF Cardinality(rows) <= RecLimit THEN {rows}
  ELSE {S \in SUBSET rows : Cardinality(S) = RecLimit}

getRecommendations_all(p) ==
  /\ pc[p] = "ud_recs"
  /\ \E rs \in RandomLimit(RecommendationRows(transactions, vehicles, loc[p].authId)) :
       loc' = [loc EXCEPT ![p].recommendations = rs]
  /\ Goto(p, "ud_close")
  /\ UNCHANGED <<store, conns, faults, initial, req, resp, accessed, seen>>

\* db.close() of getUserData resolves; res.json(user)
getUserData_close(p) ==
  /\ pc[p] = "ud_close"
  /\ conns' = conns - 1
  /\ Respond(p, 200, "json")
  /\ UNCHANGED <<store, faults, initial, req, loc, accessed, seen>>

user(p) ==
  \/ userRequest(p)
  \/ Open(p, "au_open", "au_get")
  \/ authenticateUser_get(p)
  \/ Throws(p, "au_get")
  \/ authenticateUser_close(p)
  \/ Open(p, "ud_open", "ud_all")
  \/ getUserData_all(p)
  \/ Throws(p, "ud_all")
  \/ getRecommendations_all(p)
  \/ Throws(p, "ud_recs")
  \/ getUserData_close(p)

\* ------------------------------------------------ GET /vehicle/:vehicleId
\* A path segment is never empty.
PathIds == BodyIds \ {0}

vehicleRequest(p) ==
  /\ Arrives(p)
  /\ \E v \in PathIds :
       req' = [req EXCEPT ![p] = [NoReq EXCEPT !.kind = "vehicle", !.vehicleId = v]]
  /\ Goto(p, "vi_open")
  /\ UNCHANGED <<store, conns, faults, initial, loc, resp, accessed>>

\* SELECT * FROM vehicles WHERE vehicle_id = ?
getVehicleInfo_get(p) ==
  /\ pc[p] = "vi_get"
  /\ loc' = [loc EXCEPT ![p].vehicleInfo = SelectAvailability(vehicles, req[p].vehicleId)]
  /\ Goto(p, "vi_close")
  /\ UNCHANGED <<store, conns, faults, initial, req, resp, accessed, seen>>

\* db.close() of getVehicleInfo resolves, then lines 117-123.
getVehicleInfo_close(p) ==
  /\ pc[p] = "vi_close"
  /\ conns' = conns - 1
  /\ IF ~loc[p].vehicleInfo.found
       THEN Respond(p, 404, "Vehicle not found")
       ELSE Goto(p, "pf_open") /\ UNCHANGED resp
  /\ UNCHANGED <<store, faults, initial, req, loc, accessed, seen>>

\* Ratings are kept in tenths.  SQLite's AVG counts a value that is no number
\* as 0.0.
RatingTenths(r) == IF r.isNum THEN r.tenths ELSE 0

RECURSIVE SumTenths(_)
SumTenths(rows) ==
  IF rows = <<>> THEN 0 ELSE RatingTenths(Head(rows).rating) + SumTenths(Tail(rows))

\* The rows of review for a vehicle, in review_id order.
ReviewsOf(rv, v) == SelectSeq(rv, LAMBDA r : r.vehicle_id = v)

\* Math.round(10 * result.averageRating) / 10, in tenths: AVG is NULL over no
\* rows, 10 * null is 0; Math.round rounds half up.
averageRating(rv, v) ==
  LET rows == ReviewsOf(rv, v)
      n == Len(rows)
  IN IF n = 0 THEN 0 ELSE (2 * SumTenths(rows) + n) \div (2 * n)

getProductFeedback_avg(p) ==
  /\ pc[p] = "pf_avg"
  /\ loc' = [loc EXCEPT ![p].averageRating = averageRating(review, req[p].vehicleId)]
  /\ Goto(p, "pf_all")
  /\ UNCHANGED <<store, conns, faults, initial, req, resp, accessed, seen>>

\* The orders ORDER BY date_submitted DESC allows: rows of one timestamp come
\* in any order.
ReviewOrders(rv, v) ==
  LET ids == {i \in 1..Len(rv) :
                /\ rv[i].vehicle_id = v
                /\ \E u \in users : u.user_id = rv[i].user_id}
      n == Cardinality(ids)
  IN { s \in [1..n -> ids] :
         /\ \A i, j \in 1..n : i # j => s[i] # s[j]
         /\ \A i, j \in 1..n :
              i < j => rv[s[i]].date_submitted >= rv[s[j]].date_submitted }

getProductFeedback_all(p) ==
  /\ pc[p] = "pf_all"
  /\ \E s \in ReviewOrders(review, req[p].vehicleId) :
       loc' = [loc EXCEPT ![p].reviews =
                 [k \in 1..Len(s) |-> [review_id |-> s[k],
                                       user_id |-> review[s[k]].user_id,
                                       rating |-> review[s[k]].rating,
                                       review_text |-> review[s[k]].review_text,
                                       date_submitted |-> review[s[k]].date_submitted]]]
  /\ Goto(p, "pf_close")
  /\ UNCHANGED <<store, conns, faults, initial, req, resp, accessed, seen>>

\* db.close() of getProductFeedback resolves; res.json({vehicleInfo, feedbackData})
getProductFeedback_close(p) ==
  /\ pc[p] = "pf_close"
  /\ conns' = conns - 1
  /\ Respond(p, 200, "json")
  /\ UNCHANGED <<store, faults, initial, req, loc, accessed, seen>>

vehicle(p) ==
  \/ vehicleRequest(p)
  \/ Open(p, "vi_open", "vi_get")
  \/ getVehicleInfo_get(p)
  \/ Throws(p, "vi_get")
  \/ getVehicleInfo_close(p)
  \/ Open(p, "pf_open", "pf_avg")
  \/ getProductFeedback_avg(p)
  \/ Throws(p, "pf_avg")
  \/ getProductFeedback_all(p)
  \/ Throws(p, "pf_all")
  \/ getProductFeedback_close(p)

\* ------------------------------------------------------------ GET /vehicles
\* req.query.qry and req.query.filters: <<>> stands for an absent or empty
\* parameter.
Terms == { <<>>, <<"t">>, <<"_">> }
Filters == { <<>>, <<"e">>, <<"s", ",", "e">>, <<"_">> }

\* LIKE folds the case of ASCII letters.
Lower(c) ==
  CASE c = "T" -> "t"
    [] c = "L" -> "l"
    [] OTHER -> c

\* text LIKE pattern: % is any run of characters, _ any one character.
RECURSIVE Like(_, _)
Like(pattern, text) ==
  IF pattern = <<>> THEN text = <<>>
  ELSE IF Head(pattern) = "%"
    THEN Like(Tail(pattern), text) \/ (text # <<>> /\ Like(pattern, Tail(text)))
  ELSE /\ text # <<>>
       /\ Head(pattern) = "_" \/ Lower(Head(pattern)) = Lower(Head(text))
       /\ Like(Tail(pattern), Tail(text))

\* filters.split(',')
RECURSIVE Split(_)
Split(s) ==
  LET commas == {i \in 1..Len(s) : s[i] = ","} IN
    IF commas = {} THEN <<s>>
    ELSE LET i == CHOOSE x \in commas : \A y \in commas : x <= y
         IN <<SubSeq(s, 1, i - 1)>> \o Split(SubSeq(s, i + 1, Len(s)))

\* `%${x}%`
Wrap(x) == <<"%">> \o x \o <<"%">>

\* filterArray.map(() => 'tags LIKE ?').join(' AND '), as the sequence of
\* its pieces with every placeholder a piece of its own.
RECURSIVE TagConditions(_)
TagConditions(filterArray) ==
  IF Len(filterArray) <= 1 THEN <<"tags LIKE ", "?">>
  ELSE <<"tags LIKE ", "?", " AND ">> \o TagConditions(Tail(filterArray))

\* The text with the term and the tags written into it.
queryTextInlined(q, f) ==
  <<"SELECT * FROM vehicles">>
    \o (IF q # <<>> \/ f # <<>> THEN <<" WHERE">> ELSE <<>>)
    \o (IF q # <<>> THEN <<" (availability > 0 AND tags LIKE '">> \o Wrap(q) \o <<"')">>
                    ELSE <<>>)
    \o (IF q # <<>> /\ f # <<>> THEN <<" AND">> ELSE <<>>)
    \o (IF f # <<>> THEN <<" (tags LIKE '">> \o Wrap(f) \o <<"')">> ELSE <<>>)

\* let query of searchDatabase (lines 171-189), as the sequence of its pieces
\* with every placeholder a piece of its own.
queryText(q, f) ==
  <<"SELECT * FROM vehicles">>
    \o (IF q # <<>> \/ f # <<>> THEN <<" WHERE">> ELSE <<>>)
    \o (IF q # <<>>
          THEN <<" (availability > 0 AND (model_name LIKE ", "?",
                 " OR description LIKE ", "?", " OR tags LIKE ", "?", "))">>
          ELSE <<>>)
    \o (IF q # <<>> /\ f # <<>> THEN <<" AND">> ELSE <<>>)
    \o (IF f # <<>> THEN <<" (">> \o TagConditions(Split(f)) \o <<")">> ELSE <<>>)

\* The query text as the store reads it: it is fixed by whether there is a
\* term and by the number of tags.
searchQuery(q, f) ==
  [hasTerm |-> q # <<>>, tagCount |-> IF f # <<>> THEN Len(Split(f)) ELSE 0]

createSearchParams(q, f) ==
  (IF q # <<>> THEN <<Wrap(q), Wrap(q), Wrap(q)>> ELSE <<>>)
    \o (IF f # <<>> THEN [k \in 1..Len(Split(f)) |-> Wrap(Split(f)[k])] ELSE <<>>)

\* The query with availability > 0 outside the branch of the term.
SelectVehiclesInStock(vs, query, params) ==
  LET first == IF query.hasTerm THEN 3 ELSE 0 IN
    { [vehicle_id |-> v, availability |-> vs[v].availability] :
      v \in { x \in DOMAIN vs :
                /\ vs[x].availability > 0
                /\ query.hasTerm =>
                     \/ Like(params[1], model_name[x])
                     \/ Like(params[2], description[x])
                     \/ Like(params[3], tags[x])
                /\ \A k \in 1..query.tagCount : Like(params[first + k], tags[x]) } }

\* db.all(query, params): the placeholders take the parameters in order.
SelectVehicles(vs, query, params) ==
  LET first == IF query.hasTerm THEN 3 ELSE 0 IN
    { [vehicle_id |-> v, availability |-> vs[v].availability] :
      v \in { x \in DOMAIN vs :
                /\ query.hasTerm =>
                     /\ vs[x].availability > 0
                     /\ \/ Like(params[1], model_name[x])
                        \/ Like(params[2], description[x])
                        \/ Like(params[3], tags[x])
                /\ \A k \in 1..query.tagCount : Like(params[first + k], tags[x]) } }

vehiclesRequest(p) ==
  /\ Arrives(p)
  /\ \E q \in Terms, f \in Filters :
       /\ req' = [req EXCEPT ![p] = [NoReq EXCEPT !.kind = "vehicles",
                                                  !.qry = q, !.filters = f]]
       /\ loc' = [loc EXCEPT ![p].query = queryText(q, f)]
  /\ Goto(p, "sd_open")
  /\ UNCHANGED <<store, conns, faults, initial, resp, accessed>>

searchDatabase_all(p) ==
  /\ pc[p] = "sd_all"
  /\ loc' = [loc EXCEPT ![p].results =
               SelectVehicles(vehicles, searchQuery(req[p].qry, req[p].filters),
                              createSearchParams(req[p].qry, req[p].filters))]
  /\ Goto(p, "sd_close")
  /\ UNCHANGED <<store, conns, faults, initial, req, resp, accessed, seen>>

\* db.all rejects: the finally block closes the connection first.
searchDatabase_throws(p) ==
  /\ pc[p] = "sd_all"
  /\ Rejects
  /\ Goto(p, "sd_finally")
  /\ UNCHANGED <<store, conns, initial, req, loc, resp, accessed, seen>>

\* The test that is always false.
NeverEmpty(results) == FALSE

\* results.length === 0
NoResults(results) == results = {}

\* finally { await db.close() } resolves, then lines 150-156.
searchDatabase_close(p) ==
  /\ pc[p] = "sd_close"
  /\ conns' = conns - 1
  /\ IF NoResults(loc[p].results)
       THEN Respond(p, 404, "Results not found")
       ELSE Respond(p, 200, "json")
  /\ UNCHANGED <<store, faults, initial, req, loc, accessed, seen>>

\* finally { await db.close() } resolves after a rejection, then the catch:
\* res.status(500).json({error: 'Internal Server Error'})
searchDatabase_finally(p) ==
  /\ pc[p] = "sd_finally"
  /\ conns' = conns - 1
  /\ Respond(p, 500, "Internal Server Error")
  /\ UNCHANGED <<store, faults, initial, req, loc, accessed, seen>>

vehiclesSearch(p) ==
  \/ vehiclesRequest(p)
  \/ Open(p, "sd_open", "sd_all")
  \/ searchDatabase_all(p)
  \/ searchDatabase_throws(p)
  \/ searchDatabase_close(p)
  \/ searchDatabase_finally(p)

\* --------------------------------------------------------- POST /feedback
\* The rating field of a body: a number in tenths (0 also stands for an absent
\* field; 5 is 0.5, 25 is 2.5), or a string that is no number.
Ratings ==
  { [isNum |-> TRUE, tenths |-> t] : t \in {-10, 0, 5, 25, 50, 60} }
    \cup { [isNum |-> FALSE, tenths |-> 0] }

ReviewTexts == {"", "great"}

\* The ids a feedback body carries: absent, an existing row, no row.
FeedbackIds == {0, 1, 9}

\* !rating || rating <= 0 || rating > 5: every comparison with NaN is false
RatingMalformed(r) ==
  IF r.isNum THEN r.tenths = 0 \/ r.tenths <= 0 \/ r.tenths > 50 ELSE FALSE

\* if (!userId || !vehicleId || !rating || rating <= 0 || rating > 5 || !reviewText)
FeedbackBodyMalformed(u, v, r, t) ==
  Falsy(u) \/ Falsy(v) \/ RatingMalformed(r) \/ FalsyStr(t)

feedbackRequest(p) ==
  /\ Arrives(p)
  /\ \E u \in FeedbackIds, v \in FeedbackIds, r \in Ratings, t \in ReviewTexts :
       /\ req' = [req EXCEPT ![p] = [NoReq EXCEPT !.kind = "feedback",
                                                 !.userId = u, !.vehicleId = v,
                                                 !.rating = r, !.reviewText = t]]
       /\ IF FeedbackBodyMalformed(u, v, r, t)
            THEN Respond(p, 400, "Missing or malformed required parameters")
            ELSE Goto(p, "cu_open") /\ UNCHANGED resp
  /\ UNCHANGED <<store, conns, faults, initial, loc, accessed>>

\* The lookup that finds a row for every id.
SelectUsernameOfAny(u) == [found |-> TRUE, availability |-> 0]

\* SELECT username FROM users WHERE user_id = ?
SelectUsername(u) ==
  [found |-> \E r \in users : r.user_id = u, availability |-> 0]

checkUserId_get(p) ==
  /\ pc[p] = "cu_get"
  /\ loc' = [loc EXCEPT ![p].count = SelectUsername(req[p].userId)]
  /\ Goto(p, "cu_close")
  /\ UNCHANGED <<store, conns, faults, initial, req, resp, accessed, seen>>

\* db.close() of checkUserId resolves; checkVehicleId is called
checkUserId_close(p) ==
  /\ pc[p] = "cu_close"
  /\ conns' = conns - 1
  /\ Goto(p, "ci_open")
  /\ UNCHANGED <<store, faults, initial, req, loc, resp, accessed, seen>>

\* SELECT model_name FROM vehicles WHERE vehicle_id = ?
checkVehicleId_get(p) ==
  /\ pc[p] = "ci_get"
  /\ loc' = [loc EXCEPT ![p].vehicleInfo = SelectAvailability(vehicles, req[p].vehicleId)]
  /\ Goto(p, "ci_close")
  /\ UNCHANGED <<store, conns, faults, initial, req, resp, accessed, seen>>

\* db.close() of checkVehicleId resolves, then lines 462-468.
checkVehicleId_close(p) ==
  /\ pc[p] = "ci_close"
  /\ conns' = conns - 1
  /\ IF ~loc[p].count.found \/ ~loc[p].vehicleInfo.found
       THEN Respond(p, 401, "Invalid user or vehicle ID")
       ELSE Goto(p, "af_open") /\ UNCHANGED resp
  /\ loc' = [loc EXCEPT ![p] = NoLoc]
  /\ UNCHANGED <<store, faults, initial, req, accessed, seen>>

\* date_submitted TIMESTAMP DEFAULT CURRENT_TIMESTAMP: the clock has a
\* resolution of one second and does not run backwards.
Timestamps(rv) ==
  IF rv = <<>> THEN {1}
  ELSE {rv[Len(rv)].date_submitted, rv[Len(rv)].date_submitted + 1}

\* INSERT INTO review (user_id, vehicle_id, rating, review_text)
InsertReview(rv, u, v, r, t, now) ==
  Append(rv, [user_id |-> u, vehicle_id |-> v, rating |-> r, review_text |-> t,
              date_submitted |-> now])

addProductFeedback_run(p) ==
  /\ pc[p] = "af_run"
  /\ \E now \in Timestamps(review) :
       review' = InsertReview(review, req[p].userId, req[p].vehicleId,
                              req[p].rating, req[p].reviewText, now)
  /\ loc' = [loc EXCEPT ![p].txid = Len(review')]
  /\ Goto(p, "af_close")
  /\ UNCHANGED <<vehicles, transactions, conns, faults, initial, req, resp,
                 accessed, seen>>

\* db.close() of addProductFeedback resolves; send('Review added successfully!')
addProductFeedback_close(p) ==
  /\ pc[p] = "af_close"
  /\ conns' = conns - 1
  /\ Respond(p, 200, "Review added successfully!")
  /\ UNCHANGED <<store, faults, initial, req, loc, accessed, seen>>

feedback(p) ==
  \/ feedbackRequest(p)
  \/ Open(p, "cu_open", "cu_get")
  \/ checkUserId_get(p)
  \/ Throws(p, "cu_get")
  \/ checkUserId_close(p)
  \/ Open(p, "ci_open", "ci_get")
  \/ checkVehicleId_get(p)
  \/ Throws(p, "ci_get")
  \/ checkVehicleId_close(p)
  \/ Open(p, "af_open", "af_run")
  \/ addProductFeedback_run(p)
  \/ Throws(p, "af_run")
  \/ addProductFeedback_close(p)

\* ------------------------------------------------------------ the system
Init ==
  /\ initial \in [VehicleIds -> 0..MaxAvail]
  /\ vehicles = [v \in VehicleIds |-> [availability |-> initial[v]]]
  /\ transactions = <<>>
  /\ review = <<>>
  /\ conns = 0
  /\ faults = 0
  /\ pc = [p \in Procs |-> "idle"]
  /\ req = [p \in Procs |-> NoReq]
  /\ loc = [p \in Procs |-> NoLoc]
  /\ resp = [p \in Procs |-> NoResp]
  /\ accessed = [p \in Procs |-> FALSE]
  /\ seen = [p \in Procs |-> {}]

\* The purchase and every handler that reads what it writes.
Next == \E p \in Procs : purchase(p) \/ user(p) \/ vehicle(p) \/ vehiclesSearch(p)

Spec == Init /\ [][Next]_vars

\* Every handler of app.js that takes a request body.
NextPost == \E p \in Procs : purchase(p) \/ user(p) \/ feedback(p)

SpecPost == Init /\ [][NextPost]_vars

\* Every handler of app.js.
NextAll ==
  \E p \in Procs :
    purchase(p) \/ user(p) \/ vehicle(p) \/ vehiclesSearch(p) \/ feedback(p)

SpecAll == Init /\ [][NextAll]_vars

\* The review table after earlier submissions: up to MaxReviews rows, each
\* of user 1 for vehicle 1 with rating 5, submitted one second apart.
EarlierReviews ==
  { [i \in 1..n |-> [user_id |-> 1, vehicle_id |-> 1,
                     rating |-> [isNum |-> TRUE, tenths |-> 50],
                     review_text |-> "great", date_submitted |-> i]] :
    n \in 0..MaxReviews }

\* The database after earlier submissions of feedback; no request in flight.
InitFeedback ==
  /\ review \in EarlierReviews
  /\ initial = [v \in VehicleIds |-> MaxAvail]
  /\ vehicles = [v \in VehicleIds |-> [availability |-> initial[v]]]
  /\ transactions = <<>>
  /\ conns = 0
  /\ faults = 0
  /\ pc = [p \in Procs |-> "idle"]
  /\ req = [p \in Procs |-> NoReq]
  /\ loc = [p \in Procs |-> NoLoc]
  /\ resp = [p \in Procs |-> NoResp]
  /\ accessed = [p \in Procs |-> FALSE]
  /\ seen = [p \in Procs |-> {}]

\* The submission of feedback and the handler that reads it back.
NextFeedback == \E p \in Procs : feedback(p) \/ vehicle(p)

SpecFeedback == InitFeedback /\ [][NextFeedback]_vars

\* The transactions table after earlier purchases: up to MaxRows rows of the
\* users and the vehicles.
EarlierPurchases ==
  UNION { [1..n -> [user_id : {u.user_id : u \in users},
                    vehicle_id : VehicleIds,
                    confirmation_number : {"c1"}]] : n \in 0..MaxRows }

\* The database after earlier purchases, each of which inserted its row and
\* took one unit of its vehicle; no request in flight.
InitRec ==
  /\ transactions \in EarlierPurchases
  /\ vehicles \in [VehicleIds -> [availability : 0..MaxAvail]]
  /\ initial = [v \in VehicleIds |->
                  vehicles[v].availability
                  + Cardinality({i \in 1..Len(transactions) :
                                   transactions[i].vehicle_id = v})]
  /\ review = <<>>
  /\ conns = 0
  /\ faults = 0
  /\ pc = [p \in Procs |-> "idle"]
  /\ req = [p \in Procs |-> NoReq]
  /\ loc = [p \in Procs |-> NoLoc]
  /\ resp = [p \in Procs |-> NoResp]
  /\ accessed = [p \in Procs |-> FALSE]
  /\ seen = [p \in Procs |-> {}]

\* The login, which computes the recommendations, and the purchase, which
\* writes what they are computed from.
NextRec == \E p \in Procs : purchase(p) \/ user(p)

SpecRec == InitRec /\ [][NextRec]_vars

\* ================================================================ claims
\* Purchases of vehicle v that returned their confirmation code.
ConfirmedFor(v) == {p \in Confirmed : req[p].vehicleId = v}

\* Rows of transactions for vehicle v.
RowsFor(v) == {i \in 1..Len(transactions) : transactions[i].vehicle_id = v}

\* A purchase request whose body passed the presence check.
IsPurchase(p) ==
  req[p].kind = "purchase" /\ ~Falsy(req[p].userId) /\ ~Falsy(req[p].vehicleId)

\* C1: in every reachable state, however the purchase requests interleave at
\* their store round trips, the availability of every vehicle is >= 0.
C1_AvailabilityNeverNegative ==
  \A v \in VehicleIds : vehicles[v].availability >= 0

\* C2: of the purchase requests against one vehicle whose availability is 1,
\* exactly one returns a confirmation code and every other one fails (no
\* store statement having rejected).
C2_ExactlyOneBuysLastUnit ==
  \A v \in VehicleIds :
    ( /\ Quiescent
      /\ faults = 0
      /\ initial[v] = 1
      /\ \A p \in Procs : IsPurchase(p) /\ req[p].vehicleId = v )
    => Cardinality(ConfirmedFor(v)) = 1

\* C3: the insert and the decrement of a purchase are one atomic unit: in
\* every state, for each vehicle, the number of transaction rows created for
\* it equals its initial availability minus its current availability.
C3_InsertAndDecrementAtomic ==
  \A v \in VehicleIds :
    Cardinality(RowsFor(v)) = initial[v] - vehicles[v].availability

\* C4: after a purchase that ends in the 500 outcome, the transaction rows and
\* the availability are what they were before it started (here: the only
\* purchase request, so before it started the store was in its initial state).
C4_FailedPurchaseHasNoEffect ==
  \A p \in Procs :
    ( /\ req[p].kind = "purchase"
      /\ pc[p] = "done"
      /\ resp[p].status = 500
      /\ \A q \in Procs \ {p} : req[q].kind # "purchase" )
    => /\ transactions = <<>>
       /\ \A v \in VehicleIds : vehicles[v].availability = initial[v]

C6_NoInsertWhenSoldOut ==
  [][ Len(transactions') > Len(transactions) =>
        LET row == transactions'[Len(transactions')] IN
          row.vehicle_id \in VehicleIds => vehicles[row.vehicle_id].availability > 0
    ]_vars

\* C7: a purchase request with both ids present whose vehicleId names no
\* vehicle ends (no store statement having rejected) in the 400 outcome
\* 'Vehicle not available', and changes no stored state.
C7_UnknownVehicleIsUnavailable ==
  \A p \in Procs :
    ( /\ IsPurchase(p)
      /\ req[p].vehicleId \notin VehicleIds
      /\ pc[p] = "done"
      /\ faults = 0 )
    => resp[p] = [status |-> 400, body |-> "Vehicle not available"]

\* The bodies C8 names: a purchase without userId or vehicleId, a feedback
\* with a missing field, a rating out of [1,5] or an empty reviewText, a
\* login without username or password.
C8_InvalidBody(r) ==
  \/ r.kind = "purchase" /\ (r.userId = 0 \/ r.vehicleId = 0)
  \/ r.kind = "feedback" /\
       \/ r.userId = 0 \/ r.vehicleId = 0 \/ r.reviewText = ""
       \/ r.rating.isNum /\ (r.rating.tenths < 10 \/ r.rating.tenths > 50)
  \/ r.kind = "user" /\ (r.username = "" \/ r.password = "")

\* C8: a request with such a body is answered 400 in the segment that
\* receives it, and never issues a store call.
C8_ValidationBeforeStore ==
  \A p \in Procs :
    C8_InvalidBody(req[p]) =>
      /\ ~accessed[p]
      /\ pc[p] = "done"
      /\ resp[p].status = 400

\* The purchases of vehicle v that had returned their confirmation code when
\* request r arrived.
SeenFor(r, v) == {q \in seen[r] : req[q].kind = "purchase" /\ req[q].vehicleId = v}

\* The availability of v once the purchases r has seen are applied.
SeenAvailability(r, v) == initial[v] - Cardinality(SeenFor(r, v))

\* Request r has read the transaction list of the user it authenticated.
HasReadTransactions(r) ==
  /\ req[r].kind = "user"
  /\ pc[r] \in {"ud_recs", "ud_close"} \/ (pc[r] = "done" /\ resp[r].status = 200)

\* C9: a read that starts after a purchase returned its confirmation code
\* observes that purchase: the vehicle row it reads (vehicle details, search,
\* recommendation) carries an availability decremented by every such
\* purchase, and the transaction list of the buyer holds the purchase's row.
C9_ReadsObserveConfirmedPurchases ==
  \A r \in Procs :
    /\ (req[r].kind = "vehicle" /\ loc[r].vehicleInfo.found) =>
         loc[r].vehicleInfo.availability <= SeenAvailability(r, req[r].vehicleId)
    /\ \A row \in loc[r].results :
         row.availability <= SeenAvailability(r, row.vehicle_id)
    /\ \A row \in loc[r].recommendations :
         row.availability <= SeenAvailability(r, row.vehicle_id)
    /\ HasReadTransactions(r) =>
         \A q \in seen[r] :
           (req[q].kind = "purchase" /\ req[q].userId = loc[r].authId) =>
             \E k \in DOMAIN loc[r].transactions :
               /\ loc[r].transactions[k].transaction_id = loc[q].txid
               /\ loc[r].transactions[k].vehicle_id = req[q].vehicleId
               /\ loc[r].transactions[k].confirmation_number = resp[q].body

\* C9 witness: a login answered with the transaction list of a user one of
\* whose purchases had returned its code before the login arrived.
C9_Witness ==
  \E r \in Procs :
    /\ HasReadTransactions(r)
    /\ pc[r] = "done"
    /\ \E q \in seen[r] : req[q].kind = "purchase" /\ req[q].userId = loc[r].authId

\* C10: once all requests have completed, the number of transaction rows is
\* the number of purchase requests that returned a confirmation code: a
\* purchase that ended in a failure outcome has left no row.
C10_OneRowPerConfirmedPurchase ==
  Quiescent => Len(transactions) = Cardinality(Confirmed)

\* ---------------------------------------------------------------- search
\* text contains sub as a substring, the case of letters ignored.
ContainsText(sub, text) ==
  \E i \in 0..(Len(text) - Len(sub)) :
    \A k \in 1..Len(sub) : Lower(sub[k]) = Lower(text[i + k])

\* The rows of the vehicles in S as a search returns them.
RowsOf(S) == { [vehicle_id |-> v, availability |-> vehicles[v].availability] : v \in S }

\* Request p runs the query of its search in this step.
RunsSearch(p) == pc[p] = "sd_all" /\ pc'[p] = "sd_close"

\* C11: a search with an empty term and no tags returns the entire catalog,
\* sold-out vehicles included.
C11_EmptySearchReturnsCatalog ==
  [][ \A p \in Procs :
        (RunsSearch(p) /\ req[p].qry = <<>> /\ req[p].filters = <<>>) =>
          loc'[p].results = RowsOf(VehicleIds)
    ]_vars

\* C11 witness: an empty search has been answered with both vehicles, one of
\* them sold out.
C11_Witness ==
  \E p \in Procs :
    /\ req[p].kind = "vehicles" /\ req[p].qry = <<>> /\ req[p].filters = <<>>
    /\ resp[p].status = 200
    /\ Cardinality(loc[p].results) = 2
    /\ \E row \in loc[p].results : row.availability = 0

\* C12: a search with a term and no tags returns exactly the vehicles in
\* stock whose model name, description or tag string contains the term as a
\* case-insensitive substring.
C12_TermSearchIsSubstringInStock ==
  [][ \A p \in Procs :
        (RunsSearch(p) /\ req[p].qry # <<>> /\ req[p].filters = <<>>) =>
          loc'[p].results =
            RowsOf({v \in VehicleIds :
                      /\ vehicles[v].availability > 0
                      /\ \/ ContainsText(req[p].qry, model_name[v])
                         \/ ContainsText(req[p].qry, description[v])
                         \/ ContainsText(req[p].qry, tags[v])})
    ]_vars

\* C13: a search with tags and no term returns exactly the vehicles whose tag
\* string contains every listed tag as a substring, whatever their
\* availability.
C13_TagSearchIsSubstringOfAll ==
  [][ \A p \in Procs :
        (RunsSearch(p) /\ req[p].qry = <<>> /\ req[p].filters # <<>>) =>
          loc'[p].results =
            RowsOf({v \in VehicleIds :
                      \A k \in 1..Len(Split(req[p].filters)) :
                        ContainsText(Split(req[p].filters)[k], tags[v])})
    ]_vars

\* C14: GET /vehicles answers 404 when its query matched no row, 200 when it
\* matched at least one, and 500 only when a store call rejected.
C14_EmptyResultIsNotFound ==
  \A p \in Procs :
    (req[p].kind = "vehicles" /\ pc[p] = "done") =>
      /\ resp[p].status \in {200, 404, 500}
      /\ resp[p].status = 200 => loc[p].results # {}
      /\ resp[p].status = 404 => loc[p].results = {}
      /\ resp[p].status = 500 => faults > 0

\* C14 witness: a search that matched no row has been answered 404, and no
\* store call has rejected.
C14_Witness ==
  \E p \in Procs :
    /\ req[p].kind = "vehicles" /\ pc[p] = "done"
    /\ resp[p].status = 404
    /\ faults = 0

\* -------------------------------------------------------- recommendations
\* Request p runs the recommendation query in this step.
RunsRecommendations(p) == pc[p] = "ud_recs" /\ pc'[p] = "ud_close"

\* The vehicles user u has a transaction row for.
PurchasedBy(u) ==
  {transactions[i].vehicle_id :
     i \in {j \in 1..Len(transactions) : transactions[j].user_id = u}}

\* C15: the recommendations computed for a user hold no vehicle the user has
\* a transaction for and no vehicle whose availability is 0.
C15_RecommendationsExcludeOwnedAndSoldOut ==
  [][ \A p \in Procs :
        RunsRecommendations(p) =>
          \A row \in loc'[p].recommendations :
            /\ row.vehicle_id \notin PurchasedBy(loc[p].authId)
            /\ vehicles[row.vehicle_id].availability # 0
    ]_vars

\* C15 witness: a login has been answered with recommendations while the
\* user holds a transaction for a vehicle that is in stock and that another
\* user bought too.
C15_Witness ==
  \E p \in Procs :
    /\ req[p].kind = "user" /\ pc[p] = "done" /\ resp[p].status = 200
    /\ loc[p].recommendations # {}
    /\ \E i, j \in 1..Len(transactions) :
         /\ transactions[i].user_id = loc[p].authId
         /\ transactions[j].user_id # loc[p].authId
         /\ transactions[j].vehicle_id = transactions[i].vehicle_id
         /\ vehicles[transactions[i].vehicle_id].availability > 0

\* The vehicles in stock that user u has no transaction for.
Eligible(u) ==
  {v \in VehicleIds : vehicles[v].availability > 0 /\ v \notin PurchasedBy(u)}

\* C16: the recommendations are min(5, E) rows of the E vehicles that are in
\* stock and that the user has not purchased, bought by another user or not.
C16_RecommendationsCoverEligible ==
  [][ \A p \in Procs :
        RunsRecommendations(p) =>
          LET E == Eligible(loc[p].authId) IN
            /\ {row.vehicle_id : row \in loc'[p].recommendations} \subseteq E
            /\ Cardinality(loc'[p].recommendations)
                 = IF Cardinality(E) < RecLimit THEN Cardinality(E) ELSE RecLimit
    ]_vars

\* ---------------------------------------------------------------- feedback
\* Request p runs the AVG query in this step.
RunsAverage(p) == pc[p] = "pf_avg" /\ pc'[p] = "pf_all"

\* C17: for a vehicle with no review the averageRating computed is not the
\* number 0.
C17_NoReviewsIsNotZero ==
  [][ \A p \in Procs :
        (RunsAverage(p) /\ ReviewsOf(review, req[p].vehicleId) = <<>>) =>
          loc'[p].averageRating # 0
    ]_vars

\* C18: for a vehicle with at least one review the averageRating computed is
\* the mean of its stored ratings rounded to one decimal place, and lies in
\* [1.0, 5.0].
C18_AverageIsRoundedMeanInRange ==
  [][ \A p \in Procs :
        (RunsAverage(p) /\ ReviewsOf(review, req[p].vehicleId) # <<>>) =>
          LET rows == ReviewsOf(review, req[p].vehicleId)
              n == Len(rows)
              a == loc'[p].averageRating
          IN /\ 2 * n * a - n <= 2 * SumTenths(rows)
             /\ 2 * SumTenths(rows) <= 2 * n * a + n
             /\ 10 <= a /\ a <= 50
    ]_vars

\* The feedback submissions for the vehicle of request r that were answered
\* 200 before r arrived.
SubmittedBefore(r) ==
  {q \in seen[r] : req[q].kind = "feedback" /\ req[q].vehicleId = req[r].vehicleId}

\* The place of review row id in the list of request r, 0 when it is not in it.
PlaceOf(r, id) ==
  IF \E k \in 1..Len(loc[r].reviews) : loc[r].reviews[k].review_id = id
    THEN CHOOSE k \in 1..Len(loc[r].reviews) : loc[r].reviews[k].review_id = id
    ELSE 0

\* C19: a vehicle-details fetch that starts after a feedback submission was
\* answered lists the submitted review ahead of every earlier review, and
\* when no other submission is in flight its average is that of the table.
C19_NewReviewListedFirst ==
  \A r \in Procs :
    (req[r].kind = "vehicle" /\ pc[r] = "done" /\ resp[r].status = 200) =>
      \A q \in SubmittedBefore(r) :
        /\ PlaceOf(r, loc[q].txid) > 0
        /\ \A k \in 1..Len(loc[r].reviews) :
             loc[r].reviews[k].review_id < loc[q].txid =>
               PlaceOf(r, loc[q].txid) < k
        /\ (\A o \in Procs : req[o].kind = "feedback" => o \in seen[r]) =>
             loc[r].averageRating = averageRating(review, req[r].vehicleId)

\* C20: every stored review has a rating that is an integer from 1 to 5.
C20_StoredRatingIsInteger1To5 ==
  \A i \in 1..Len(review) :
    /\ review[i].rating.isNum
    /\ review[i].rating.tenths \in {10, 20, 30, 40, 50}

\* The ids of the rows of users.
UserIds == {u.user_id : u \in users}

\* Request p is a well-formed feedback submission one of whose ids names no
\* row.
DanglingFeedback(p) ==
  /\ req[p].kind = "feedback"
  /\ ~FeedbackBodyMalformed(req[p].userId, req[p].vehicleId, req[p].rating,
                            req[p].reviewText)
  /\ req[p].userId \notin UserIds \/ req[p].vehicleId \notin VehicleIds

\* C21: a well-formed feedback submission that names no existing user or no
\* existing vehicle is answered 401 (500 when a store call rejected) and
\* inserts nothing: every stored review names an existing user and an
\* existing vehicle.
C21_FeedbackReferencesExist ==
  /\ \A i \in 1..Len(review) :
       review[i].user_id \in UserIds /\ review[i].vehicle_id \in VehicleIds
  /\ \A p \in Procs :
       DanglingFeedback(p) =>
         /\ pc[p] \notin {"af_open", "af_run", "af_close"}
         /\ pc[p] = "done" =>
              \/ resp[p].status = 401
              \/ resp[p].status = 500 /\ faults > 0

\* C21 witness: a well-formed submission for a vehicle that does not exist
\* has been answered 401, and another submission has inserted its review.
C21_Witness ==
  /\ \E p \in Procs :
       DanglingFeedback(p) /\ pc[p] = "done" /\ resp[p].status = 401
  /\ \E q \in Procs :
       req[q].kind = "feedback" /\ resp[q].status = 200 /\ loc[q].txid = Len(review)

\* ------------------------------------------------------------ store faults
\* A store call of request p rejects in this step.
Faulted(p) == faults' = faults + 1 /\ pc'[p] # pc[p]

\* Request p is answered 500 with the generic message in this step.
AnsweredGeneric500(p) ==
  /\ pc'[p] = "done"
  /\ resp'[p] = [status |-> 500, body |-> "Internal Server Error"]

\* C22: a store call that rejects is not retried and changes nothing; the
\* request is answered 500 "Internal Server Error" at once or, in the
\* search, after the finally block; no request is answered twice.
C22_StoreFaultIsGeneric500 ==
  [][ \A p \in Procs :
        /\ Faulted(p) =>
             /\ store' = store
             /\ resp[p].status = 0
             /\ AnsweredGeneric500(p) \/ (pc'[p] = "sd_finally" /\ resp'[p] = resp[p])
        /\ (pc[p] = "sd_finally" /\ pc'[p] # pc[p]) => AnsweredGeneric500(p)
        /\ resp[p].status # 0 => (resp'[p] = resp[p] /\ pc'[p] = "done")
    ]_vars

\* C22 witness: a store call of a feedback submission has rejected and the
\* submission has been answered 500.
C22_Witness ==
  \E p \in Procs :
    /\ req[p].kind = "feedback" /\ accessed[p]
    /\ faults > 0
    /\ pc[p] = "done" /\ resp[p].status = 500

\* C23: when no request is in flight no store connection is open.
C23_NoConnectionLeftOpen == Quiescent => conns = 0

\* ------------------------------------------------------------------ frame
\* Request p is a purchase of vehicle v that runs its UPDATE in this step.
Decrements(p, v) ==
  /\ req[p].kind = "purchase" /\ req[p].vehicleId = v
  /\ pc[p] = "mp_update" /\ pc'[p] = "mp_close"

\* Request p is a purchase that runs its INSERT in this step.
Inserts(p) ==
  /\ req[p].kind = "purchase"
  /\ pc[p] = "mp_insert" /\ pc'[p] = "mp_update"

\* C24: a step changes the availability of a vehicle only as the UPDATE of a
\* purchase of that vehicle, by -1, and changes transactions only as the
\* INSERT of a purchase; no other request writes either relation.
C24_OnlyPurchaseWritesVehicles ==
  [][ /\ \A v \in VehicleIds :
           vehicles'[v] # vehicles[v] =>
             /\ \E p \in Procs : Decrements(p, v)
             /\ vehicles'[v].availability = vehicles[v].availability - 1
             /\ \A w \in VehicleIds \ {v} : vehicles'[w] = vehicles[w]
      /\ transactions' # transactions => \E p \in Procs : Inserts(p)
    ]_vars

\* C24 witness: a purchase of one vehicle and a feedback submission have been
\* answered 200; the vehicle has one unit less and the other vehicle has its
\* initial availability.
C24_Witness ==
  \E p, q \in Procs :
    /\ p \in Confirmed
    /\ req[q].kind = "feedback" /\ resp[q].status = 200
    /\ vehicles[req[p].vehicleId].availability = initial[req[p].vehicleId] - 1
    /\ \E w \in VehicleIds \ {req[p].vehicleId} :
         initial[w] > 0 /\ vehicles[w].availability = initial[w]

\* ------------------------------------------------------------- query text
\* The number of comma-separated tags of a filters value.
NumTags(f) == IF f = <<>> THEN 0 ELSE 1 + Cardinality({i \in 1..Len(f) : f[i] = ","})

\* The number of placeholders of a query text.
Placeholders(text) == Cardinality({k \in 1..Len(text) : text[k] = "?"})

\* The searches that have built their query.
Searches == {p \in Procs : req[p].kind = "vehicles"}

\* C25: two searches that agree on whether the term is empty and on the
\* number of tags build the same query text; no piece of the text is a
\* character of the term or of the filters; the text has as many placeholders
\* as createSearchParams has parameters.
C25_QueryTextIsParameterized ==
  \A p \in Searches :
    /\ \A r \in Searches :
         ( /\ (req[p].qry = <<>>) = (req[r].qry = <<>>)
           /\ NumTags(req[p].filters) = NumTags(req[r].filters) )
           => loc[p].query = loc[r].query
    /\ \A k \in 1..Len(loc[p].query) :
         /\ \A i \in 1..Len(req[p].qry) : loc[p].query[k] # req[p].qry[i]
         /\ \A i \in 1..Len(req[p].filters) : loc[p].query[k] # req[p].filters[i]
    /\ Placeholders(loc[p].query)
         = Len(createSearchParams(req[p].qry, req[p].filters))

\* C25 witness: two searches with different terms and different tags of the
\* same number have built their query.
C25_Witness ==
  \E p, r \in Searches :
    /\ req[p].qry # <<>> /\ req[r].qry # <<>> /\ req[p].qry # req[r].qry
    /\ req[p].filters # <<>> /\ req[r].filters # <<>>
    /\ req[p].filters # req[r].filters
    /\ NumTags(req[p].filters) = NumTags(req[r].filters)
    /\ Placeholders(loc[p].query) = 4

\* C26: no vehicle appears more than once in the recommendations computed
\* for a user.
C26_RecommendationsAreASet ==
  [][ \A p \in Procs :
        RunsRecommendations(p) =>
          \A a, b \in loc'[p].recommendations :
            a.vehicle_id = b.vehicle_id => a = b
    ]_vars

\* C27: every transaction row names an existing user and an existing
\* vehicle.
C27_TransactionReferencesExist ==
  \A i \in 1..Len(transactions) :
    /\ transactions[i].user_id \in UserIds
    /\ transactions[i].vehicle_id \in VehicleIds

\* The mean of the ratings of a list of reviews, in tenths, rounded to the
\* nearest tenth with a half rounded up.
RoundedMean(rows) == (2 * SumTenths(rows) + Len(rows)) \div (2 * Len(rows))

\* C28: the averageRating a vehicle-details fetch returns is the rounded mean
\* of the ratings of the reviews it returns.
C28_AverageMatchesReturnedReviews ==
  \A p \in Procs :
    ( /\ req[p].kind = "vehicle" /\ pc[p] = "done" /\ resp[p].status = 200
      /\ loc[p].reviews # <<>> )
      => loc[p].averageRating = RoundedMean(loc[p].reviews)

====
